---- MODULE Spec2Model ----
(***************************************************************************)
(* Model of swarm/assemble-dna.py (class DNAAssembler).                    *)
(*                                                                         *)
(* Text is a sequence of cells.  A cell carries one token of text in its   *)
(* field c: the characters "{", "}" and "\n" are tokens of their own, a    *)
(* placeholder name (AGENT_TYPE, ...) is one token, and a run of literal   *)
(* text that holds no brace is one token.  The cell's other two fields are *)
(* provenance only (no operation of the program reads them):               *)
(*    p   > 0, off = 0 : the cell is cell p of the text handed in;         *)
(*    p   > 0, off > 0 : the cell is cell off of a value that replaced the *)
(*                       placeholder which started at cell p of the input; *)
(*    p   = 0          : anything else.                                    *)
(***************************************************************************)
EXTENDS Integers, Sequences, FiniteSets, TLC

VARIABLES sT, sM, sOut, sDone,
          store, specs, dirExists, pc, todo, handed, files, call, dna

vars == <<sT, sM, sOut, sDone, store, specs, dirExists, pc, todo, handed, files, call, dna>>

substVars == <<sT, sM, sOut, sDone>>
asmVars == <<store, specs, dirExists, pc, todo, handed, files, call, dna>>

----------------------------------------------------------------------------
(* Text helpers *)

Cell(tok, p, off) == [c |-> tok, p |-> p, off |-> off]

\* a text with no provenance (a literal of the program, a file's content)
Plain(toks) == [i \in 1..Len(toks) |-> Cell(toks[i], 0, 0)]

\* the text handed to a call, each cell remembering its position
Tagged(toks) == [i \in 1..Len(toks) |-> Cell(toks[i], i, 0)]

\* the characters of a text, provenance dropped
Toks(s) == [i \in 1..Len(s) |-> s[i].c]

\* old (tokens) occurs in s starting at cell i
MatchAt(s, old, i) ==
    /\ i >= 1
    /\ i + Len(old) - 1 <= Len(s)
    /\ \A j \in 1..Len(old) : s[i + j - 1].c = old[j]

Contains(s, sub) == \E i \in 1..(Len(s) + 1) : MatchAt(s, sub, i)

EndsWith(s, suf) == Len(suf) <= Len(s) /\ MatchAt(s, suf, Len(s) - Len(suf) + 1)

RECURSIVE Flatten(_)
Flatten(ss) == IF ss = <<>> THEN <<>> ELSE Head(ss) \o Flatten(Tail(ss))

----------------------------------------------------------------------------
(* str(value), Python's text form of a value.  A value is a record         *)
(* [t, s, n]: a string (t = "str", tokens s) or an integer (t = "int", n). *)

DigitTok == <<"0", "1", "2", "3", "4", "5", "6", "7", "8", "9">>

RECURSIVE IntStr(_)
IntStr(n) == IF n < 10 THEN <<DigitTok[n + 1]>>
             ELSE IntStr(n \div 10) \o <<DigitTok[(n % 10) + 1]>>

StrV(toks) == [t |-> "str", s |-> toks, n |-> 0]
IntV(n) == [t |-> "int", s |-> <<>>, n |-> n]

Str(value) == IF value.t = "int" THEN IntStr(value.n) ELSE value.s

----------------------------------------------------------------------------
(* substitute_variables *)

\* f"{{{{{key}}}}}"
Placeholder(key) == <<"{", "{", key, "}", "}">>

\* the cells a replacement writes in place of the match that starts with cell m
Inserted(new, m) ==
    [j \in 1..Len(new) |-> Cell(new[j], IF m.off = 0 THEN m.p ELSE 0, j)]

\* a plausible slip: str.replace(old, new, 1), the first occurrence only
RECURSIVE ReplaceFirstFrom(_, _, _, _)
ReplaceFirstFrom(s, old, new, i) ==
    IF i > Len(s) THEN <<>>
    ELSE IF MatchAt(s, old, i)
         THEN Inserted(new, s[i]) \o SubSeq(s, i + Len(old), Len(s))
         ELSE <<s[i]>> \o ReplaceFirstFrom(s, old, new, i + 1)

\* str.replace(old, new) for a non-empty old: one pass, left to right, over
\* the non-overlapping occurrences; what it writes is not scanned again
RECURSIVE ReplaceFrom(_, _, _, _)
ReplaceFrom(s, old, new, i) ==
    IF i > Len(s) THEN <<>>
    ELSE IF MatchAt(s, old, i)
         THEN Inserted(new, s[i]) \o ReplaceFrom(s, old, new, i + Len(old))
         ELSE <<s[i]>> \o ReplaceFrom(s, old, new, i + 1)

ReplaceOnce(s, old, new) == ReplaceFirstFrom(s, old, new, 1)

Replace(s, old, new) == ReplaceFrom(s, old, new, 1)

\* the content after the first n iterations of the loop over variables.items();
\* variables is the dict in its iteration order, a sequence of [key, value]
RECURSIVE SubstituteUpTo(_, _, _)
SubstituteUpTo(content, variables, n) ==
    IF n = 0 THEN content
    ELSE Replace(SubstituteUpTo(content, variables, n - 1),
                 Placeholder(variables[n].key), Str(variables[n].value))

substitute_variables(content, variables) ==
    SubstituteUpTo(content, variables, Len(variables))

Keys(variables) == {variables[i].key : i \in 1..Len(variables)}

----------------------------------------------------------------------------
(* Bounds of the model *)

\* at most this many fragments are absent from the Fragment Store
\* (the store with every fragment absent is always among the inputs)
MaxAbsent == 1
\* at most this many .yaml files in the specializations directory
MaxSpecs == 2
\* the text handed to substitute_variables is at most this many chunks
MaxChunks == 3

----------------------------------------------------------------------------
(* The two stores: components/<name>.md and specializations/<name>.yaml *)

FragNames == {"base-header", "prime-directive", "sub-agent-context",
              "project-context", "queen-capabilities", "workflow-start",
              "queen-output", "architect-capabilities", "coding-standards",
              "architect-output", "worker-capabilities", "worker-output",
              "worker-specializations"}

Attrs == {"description", "details", "focus_areas", "key_patterns"}

\* a slip: a marker instead of "" for a file that is not there
load_component_marker(st, name) ==
    IF name \in DOMAIN st THEN st[name] ELSE <<"MISSING">>

\* load_component: the file's text, "" when there is no such file
load_component(st, name) ==
    IF name \in DOMAIN st THEN st[name] ELSE <<>>

\* load_specialization: the parsed mapping, {} when there is no such file
EmptyDict == [a \in {} |-> StrV(<<>>)]

load_specialization(sp, name) ==
    IF name \in DOMAIN sp THEN sp[name] ELSE EmptyDict

\* a slip: the text of None where the default belongs
GetNoDefault(d, key, default) == IF key \in DOMAIN d THEN d[key] ELSE StrV(<<"None">>)

\* dict.get(key, default)
Get(d, key, default) == IF key \in DOMAIN d THEN d[key] ELSE default

----------------------------------------------------------------------------
(* The three roles *)

KV(k, v) == [key |-> k, value |-> v]

\* datetime.now().isoformat(), for the clock readings 1, 2, ...
IsoFormat(t) == <<"2025-01-01T00:00:0">> \o IntStr(t)

QueenComponents ==
    <<"base-header", "prime-directive", "sub-agent-context", "project-context",
      "queen-capabilities", "workflow-start", "queen-output">>

QueenVariables(t) ==
    << KV("AGENT_TYPE", StrV(<<"Queen">>)),
       KV("AGENT_ID", StrV(<<"zen-queen">>)),
       KV("TIMESTAMP", StrV(IsoFormat(t))),
       KV("SPECIALIZATION", StrV(<<"Strategic Coordination">>)),
       KV("PRIME_DIRECTIVE", StrV(<<"Lead the swarm ... You coordinate but do NOT implement code.">>)),
       KV("TOOL_ACCESS", StrV(<<"Read, Bash (for make vision/enforce)">>)) >>

ArchitectComponents ==
    <<"base-header", "prime-directive", "sub-agent-context", "project-context",
      "architect-capabilities", "workflow-start", "coding-standards",
      "architect-output">>

ArchitectVariables(t) ==
    << KV("AGENT_TYPE", StrV(<<"Architect">>)),
       KV("AGENT_ID", StrV(<<"zen-architect">>)),
       KV("TIMESTAMP", StrV(IsoFormat(t))),
       KV("SPECIALIZATION", StrV(<<"System Design">>)),
       KV("PRIME_DIRECTIVE", StrV(<<"Design the technical architecture ... You design but do NOT implement code.">>)),
       KV("TOOL_ACCESS", StrV(<<"Read, Write (for design docs)">>)) >>

WorkerBase ==
    <<"base-header", "prime-directive", "sub-agent-context", "project-context",
      "worker-capabilities", "workflow-start", "coding-standards",
      "worker-output">>

\* list.insert(i, x) for a negative i: before the element at len + i
InsertAt(l, i, x) ==
    LET k == IF i < 0 THEN (IF Len(l) + i < 0 THEN 0 ELSE Len(l) + i)
             ELSE (IF i > Len(l) THEN Len(l) ELSE i)
    IN SubSeq(l, 1, k) \o <<x>> \o SubSeq(l, k + 1, Len(l))

\* a slip: the fragment appended after worker-output
WorkerComponentsAppend(specialization) ==
    IF specialization # "general"
    THEN Append(WorkerBase, "worker-specializations")
    ELSE WorkerBase

\* a slip: the fragment inserted for every specialization, "general" too
WorkerComponentsAlways(specialization) ==
    InsertAt(WorkerBase, -1, "worker-specializations")

WorkerComponents(specialization) ==
    IF specialization # "general"
    THEN InsertAt(WorkerBase, -1, "worker-specializations")
    ELSE WorkerBase

WorkerSpecData(sp, specialization) ==
    IF specialization # "general"
    THEN load_specialization(sp, specialization)
    ELSE EmptyDict

WorkerVariables(sp, specialization, t) ==
    LET spec_data == WorkerSpecData(sp, specialization) IN
    << KV("AGENT_TYPE", StrV(<<"Worker">>)),
       KV("AGENT_ID", StrV(<<"zen-worker-", specialization>>)),
       KV("TIMESTAMP", StrV(IsoFormat(t))),
       KV("SPECIALIZATION", StrV(<<specialization>>)),
       KV("PRIME_DIRECTIVE",
          StrV(<<"Transform architectural designs ... You are specialized in ">>
               \o Str(Get(spec_data, "description", StrV(<<"general implementation">>)))
               \o <<". You implement with precision but do NOT make architectural decisions.">>)),
       KV("TOOL_ACCESS", StrV(<<"Read, Edit, MultiEdit, Bash">>)),
       KV("SPECIALIZATION_DETAILS", Get(spec_data, "details", StrV(<<>>))),
       KV("FOCUS_AREAS", Get(spec_data, "focus_areas", StrV(<<>>))),
       KV("KEY_PATTERNS", Get(spec_data, "key_patterns", StrV(<<>>))) >>

----------------------------------------------------------------------------
(* _assemble_dna *)

\* the literal appended as the last section; it starts with a newline
Closing ==
    <<"\n", "## SWARM PROTOCOL", "\n", "\n",
      "Follow the swarm protocol defined in swarm/component/protocol.md ... coordination rules.">>

Separator == <<"\n", "\n">>

\* sep.join(sections)
RECURSIVE Join(_, _)
Join(sections, sep) ==
    IF sections = <<>> THEN <<>>
    ELSE IF Len(sections) = 1 THEN sections[1]
    ELSE sections[1] \o sep \o Join(Tail(sections), sep)

\* the text a component contributes: its content with the variables replaced
Substituted(st, component, variables) ==
    Toks(substitute_variables(Plain(load_component(st, component)), variables))

\* the list `sections` after the loop over the first n components
RECURSIVE Sections(_, _, _, _)
Sections(st, components, variables, n) ==
    IF n = 0 THEN <<>>
    ELSE LET before == Sections(st, components, variables, n - 1)
             content == load_component(st, components[n])
         IN IF content # <<>>
            THEN Append(before, Substituted(st, components[n], variables))
            ELSE before

\* a slip: no `if content:` test, an empty section for an absent fragment
RECURSIVE SectionsNoSkip(_, _, _, _)
SectionsNoSkip(st, components, variables, n) ==
    IF n = 0 THEN <<>>
    ELSE Append(SectionsNoSkip(st, components, variables, n - 1),
                Substituted(st, components[n], variables))

\* a slip: the closing section left out
assemble_dna_no_closing(st, components, variables) ==
    Join(Sections(st, components, variables, Len(components)), Separator)

assemble_dna_no_skip(st, components, variables) ==
    Join(Append(SectionsNoSkip(st, components, variables, Len(components)), Closing),
         Separator)

assemble_dna(st, components, variables) ==
    Join(Append(Sections(st, components, variables, Len(components)), Closing),
         Separator)

assemble_queen_dna(st, t) == assemble_dna(st, QueenComponents, QueenVariables(t))

assemble_architect_dna(st, t) ==
    assemble_dna(st, ArchitectComponents, ArchitectVariables(t))

assemble_worker_dna(st, sp, specialization, t) ==
    assemble_dna(st, WorkerComponents(specialization),
                 WorkerVariables(sp, specialization, t))

----------------------------------------------------------------------------
(* save_dna *)

\* Python's None
None == "<None>"

Truthy(x) == x # None /\ x # ""

\* a slip: the specialization left out of the file's name
FilenameRoleOnly(role, specialization) == <<role, ".md">>

\* the name of the file written under dna/
Filename(role, specialization) ==
    IF role = "worker" /\ Truthy(specialization)
    THEN <<role, "-", specialization, ".md">>
    ELSE <<role, ".md">>

\* path.write_text(content): the file holds the content afterwards
WriteText(fs, name, content) ==
    [f \in DOMAIN fs \cup {name} |-> IF f = name THEN content ELSE fs[f]]

----------------------------------------------------------------------------
(* Inputs of the model *)

PH(key) == Placeholder(key)

TemplatedBody(name) ==
    CASE name = "base-header" -> <<"# ">> \o PH("AGENT_TYPE") \o <<"\n">>
      [] name = "prime-directive" -> PH("PRIME_DIRECTIVE")
      [] name = "sub-agent-context" -> <<>>
      [] name = "project-context" -> <<"ctx ">> \o PH("UNKNOWN")
      [] name = "queen-capabilities" -> PH("TOOL_ACCESS")
      [] name = "workflow-start" -> PH("AGENT_ID") \o <<" ">> \o PH("AGENT_ID")
      [] name = "queen-output" -> <<"at ">> \o PH("TIMESTAMP")
      [] name = "architect-capabilities" -> PH("SPECIALIZATION")
      [] name = "coding-standards" -> <<"std", "\n">>
      [] name = "architect-output" -> <<"design">>
      [] name = "worker-capabilities" -> PH("KEY_PATTERNS")
      [] name = "worker-output" -> <<"out">>
      [] OTHER -> <<"spec: ">> \o PH("SPECIALIZATION") \o <<" ">>
                  \o PH("SPECIALIZATION_DETAILS") \o PH("FOCUS_AREAS")

Body(variant, name) ==
    IF variant = "same" THEN <<"H">> ELSE TemplatedBody(name)

AbsentSets == {D \in SUBSET FragNames : Cardinality(D) <= MaxAbsent} \cup {FragNames}

\* the contents of components/: a file per present fragment (it may be
\* empty); the fragments differ, or all thirteen files hold the same text
Stores ==
    {[n \in FragNames \ D |-> Body("templated", n)] : D \in AbsentSets}
    \cup {[n \in FragNames |-> Body("same", n)]}

SpecNameList == <<"lexer", "general", "parser", "memory", "types">>

SpecNames == {SpecNameList[i] : i \in 1..(IF MaxSpecs <= 5 THEN MaxSpecs ELSE 5)}

\* what yaml.safe_load gives for the mapping in specializations/<name>.yaml
\* (a document that is no mapping, such as an empty file, is not among the
\* inputs)
RecordOf(name) ==
    CASE name = "lexer" ->
           [a \in Attrs \ {"details"} |->
              CASE a = "description" -> StrV(<<"lexing of ">> \o PH("FOCUS_AREAS"))
                [] a = "focus_areas" -> StrV(<<"scanner">>)
                [] OTHER -> StrV(<<"lexer_*">>)]
      [] name = "general" ->
           [a \in {"description"} |-> StrV(<<"everything">>)]
      [] name = "parser" ->
           [a \in {"description", "focus_areas"} |->
              IF a = "description" THEN StrV(<<"parsing">>) ELSE IntV(42)]
      [] name = "memory" ->
           [a \in {"details"} |-> StrV(<<"refcount">>)]
      [] OTHER -> EmptyDict

\* the contents of specializations/: a mapping per .yaml file
SpecStores == {[n \in S |-> RecordOf(n)] : S \in SUBSET SpecNames}

\* the names assemble_worker_dna is called with from outside the batch
RequestNames == SpecNames \cup {"general", "ghost"}

\* the readings of datetime.now(): two moments
Clock == {1, 2}

NoCall == [fn |-> "none", arg |-> "", components |-> <<>>, variables |-> <<>>]

CallOf(fn, arg, components, variables) ==
    [fn |-> fn, arg |-> arg, components |-> components, variables |-> variables]

----------------------------------------------------------------------------
(* The assembler over a Fragment Store and a Specialization Store.         *)
(* Specification Spec: the three assemble_* methods are called, one at a   *)
(* time (pc "idle" -> "returned" -> "idle").                               *)
(* Specification SpecAll: assemble_all runs, one document (assemble, then  *)
(* save_dna) per step.                                                     *)

Init ==
    /\ store \in Stores
    /\ dirExists \in BOOLEAN
    /\ specs \in (IF dirExists THEN SpecStores ELSE {EmptyDict})
    /\ pc = "idle"
    /\ todo = {}
    /\ handed = {}
    /\ files = EmptyDict
    /\ call = NoCall
    /\ dna = <<>>
    /\ sT = <<>> /\ sM = <<>> /\ sOut = <<>> /\ sDone = FALSE

DoQueen(t) ==
    /\ call' = CallOf("queen", None, QueenComponents, QueenVariables(t))
    /\ dna' = assemble_queen_dna(store, t)

DoArchitect(t) ==
    /\ call' = CallOf("architect", None, ArchitectComponents, ArchitectVariables(t))
    /\ dna' = assemble_architect_dna(store, t)

DoWorker(specialization, t) ==
    /\ call' = CallOf("worker", specialization, WorkerComponents(specialization),
                      WorkerVariables(specs, specialization, t))
    /\ dna' = assemble_worker_dna(store, specs, specialization, t)

CallQueen ==
    /\ pc = "idle"
    /\ \E t \in Clock : DoQueen(t)
    /\ pc' = "returned"
    /\ UNCHANGED <<store, specs, dirExists, todo, handed, files>>
    /\ UNCHANGED substVars

CallArchitect ==
    /\ pc = "idle"
    /\ \E t \in Clock : DoArchitect(t)
    /\ pc' = "returned"
    /\ UNCHANGED <<store, specs, dirExists, todo, handed, files>>
    /\ UNCHANGED substVars

CallWorker ==
    /\ pc = "idle"
    /\ \E s \in RequestNames, t \in Clock : DoWorker(s, t)
    /\ pc' = "returned"
    /\ UNCHANGED <<store, specs, dirExists, todo, handed, files>>
    /\ UNCHANGED substVars

Return ==
    /\ pc = "returned"
    /\ pc' = "idle"
    /\ call' = NoCall
    /\ dna' = <<>>
    /\ UNCHANGED <<store, specs, dirExists, todo, handed, files>>
    /\ UNCHANGED substVars

\* save_dna(role, content, specialization): the document is handed to the
\* writer; mkdir or write_text may raise OSError (ok = FALSE), which nothing
\* in save_dna or assemble_all catches
SaveDna(role, content, specialization, ok, next) ==
    /\ handed' = handed \cup {Filename(role, specialization)}
    /\ IF ok
       THEN /\ files' = WriteText(files, Filename(role, specialization), content)
            /\ pc' = next
       ELSE /\ files' = files
            /\ pc' = "raised"

StartAll ==
    /\ pc = "idle"
    /\ pc' = "queen"
    /\ UNCHANGED <<store, specs, dirExists, todo, handed, files, call, dna>>
    /\ UNCHANGED substVars

AllQueen ==
    /\ pc = "queen"
    /\ \E t \in Clock : DoQueen(t)
    /\ \E ok \in BOOLEAN : SaveDna("queen", dna', None, ok, "architect")
    /\ UNCHANGED <<store, specs, dirExists, todo>>
    /\ UNCHANGED substVars

AllArchitect ==
    /\ pc = "architect"
    /\ \E t \in Clock : DoArchitect(t)
    /\ \E ok \in BOOLEAN : SaveDna("architect", dna', None, ok, "general")
    /\ UNCHANGED <<store, specs, dirExists, todo>>
    /\ UNCHANGED substVars

\* the general worker, then specializations_dir.glob("*.yaml") is started:
\* nothing when the directory is missing
AllGeneral ==
    /\ pc = "general"
    /\ \E t \in Clock : DoWorker("general", t)
    /\ \E ok \in BOOLEAN : SaveDna("worker", dna', "general", ok, "specs")
    /\ todo' = IF pc' = "specs" /\ dirExists THEN DOMAIN specs ELSE {}
    /\ UNCHANGED <<store, specs, dirExists>>
    /\ UNCHANGED substVars

\* one iteration of the loop over the glob, in whatever order it yields
AllSpec ==
    /\ pc = "specs"
    /\ \E spec_name \in todo :
         /\ \E t \in Clock : DoWorker(spec_name, t)
         /\ \E ok \in BOOLEAN : SaveDna("worker", dna', spec_name, ok, "specs")
         /\ todo' = IF pc' = "specs" THEN todo \ {spec_name} ELSE {}
    /\ UNCHANGED <<store, specs, dirExists>>
    /\ UNCHANGED substVars

AllDone ==
    /\ pc = "specs"
    /\ todo = {}
    /\ pc' = "done"
    /\ UNCHANGED <<store, specs, dirExists, todo, handed, files, call, dna>>
    /\ UNCHANGED substVars

Next ==
    \/ CallQueen
    \/ CallArchitect
    \/ CallWorker
    \/ Return

Spec == Init /\ [][Next]_vars

AllNext ==
    \/ StartAll
    \/ AllQueen
    \/ AllArchitect
    \/ AllGeneral
    \/ AllSpec
    \/ AllDone

SpecAll == Init /\ [][AllNext]_vars

----------------------------------------------------------------------------
(* Specification SpecSubst: substitute_variables applied to a text and a   *)
(* mapping drawn from bounded sets.                                        *)

Chunks == {PH("A"), PH("B"), PH("C"), <<"{", "{">>, <<"}", "}">>, <<"B">>, <<"x">>}

Texts == {Flatten(cs) : cs \in UNION {[1..n -> Chunks] : n \in 0..MaxChunks}}

SubstKeys == {"A", "B"}

PlaceholderNames == {"A", "B", "C"}

SubstValues == {StrV(<<>>), StrV(PH("A")), StrV(PH("B")), IntV(7)}

\* dicts over SubstKeys in every iteration order
Mappings ==
    {<<>>}
    \cup {<<KV(k, v)>> : k \in SubstKeys, v \in SubstValues}
    \cup {<<KV(k1, v1), KV(k2, v2)>> :
            k1 \in SubstKeys, k2 \in SubstKeys, v1 \in SubstValues, v2 \in SubstValues}

SubstInit ==
    /\ sT \in Texts
    /\ sM \in {m \in Mappings : Len(m) < 2 \/ m[1].key # m[2].key}
    /\ sOut = <<>>
    /\ sDone = FALSE
    /\ store = EmptyDict /\ specs = EmptyDict /\ dirExists = FALSE
    /\ pc = "idle" /\ todo = {} /\ handed = {} /\ files = EmptyDict
    /\ call = NoCall /\ dna = <<>>

Substitute ==
    /\ ~sDone
    /\ sOut' = substitute_variables(Tagged(sT), sM)
    /\ sDone' = TRUE
    /\ UNCHANGED <<sT, sM>>
    /\ UNCHANGED asmVars

SubstNext == Substitute

SpecSubst == SubstInit /\ [][SubstNext]_vars

----------------------------------------------------------------------------
(* Claims about substitute_variables (specification SpecSubst) *)

\* the cells of T at which an occurrence of {{name}} starts
OrigOcc(T, name) == {i \in 1..Len(T) : MatchAt(Tagged(T), PH(name), i)}

\* the occurrence of {{name}} that started at cell i of the input is in out,
\* made of the very cells of the input
SurvivesAt(out, name, i) ==
    \E j \in 1..Len(out) :
        /\ MatchAt(out, PH(name), j)
        /\ \A m \in 0..4 : out[j + m].p = i + m /\ out[j + m].off = 0

\* out holds the cells from..from+Len(toks)-1 of the value written in place
\* of the placeholder that started at cell i of the input, and they read toks
ValueCellsAt(out, i, from, toks) ==
    \E j \in 0..Len(out) :
        \A m \in 1..Len(toks) :
            /\ j + m <= Len(out)
            /\ out[j + m] = Cell(toks[m], i, from + m - 1)

\* C1: in the result of substitute_variables(T, M) no occurrence of {{key}}
\* of T is left for a key of M: each was replaced, in the iteration of its
\* key, by str(M[key]); and every occurrence in T of a placeholder {{name}}
\* whose name is not a key of M is in the result, cell for cell.
C1_SubstitutionCorrect ==
    sDone =>
        /\ \A n \in 1..Len(sM) :
             \A i \in OrigOcc(sT, sM[n].key) :
                /\ ~SurvivesAt(sOut, sM[n].key, i)
                /\ ValueCellsAt(SubstituteUpTo(Tagged(sT), sM, n), i, 1,
                                Str(sM[n].value))
        /\ \A name \in PlaceholderNames \ Keys(sM) :
             \A i \in OrigOcc(sT, name) : SurvivesAt(sOut, name, i)

\* a text with two occurrences of a key's placeholder and one of a name that
\* is no key, substituted with a non-empty value
C1_Witness ==
    /\ sDone
    /\ \E n \in 1..Len(sM) :
          /\ Cardinality(OrigOcc(sT, sM[n].key)) >= 2
          /\ Str(sM[n].value) # <<>>
    /\ \E name \in PlaceholderNames \ Keys(sM) : OrigOcc(sT, name) # {}

\* C2: a placeholder {{k2}} that the replacement of {{k1}} wrote into the
\* text (it is part of the value of k1, k2 another key of M) is in the result
\* as written, whatever the iteration order of M.
C2_NoResubstitution ==
    sDone =>
        \A n1 \in 1..Len(sM), n2 \in 1..Len(sM) :
            n1 # n2 =>
                LET v1 == Str(sM[n1].value) IN
                \A from \in 1..Len(v1) :
                    MatchAt(Plain(v1), PH(sM[n2].key), from) =>
                        \A i \in OrigOcc(sT, sM[n1].key) :
                            ValueCellsAt(sOut, i, from, PH(sM[n2].key))

----------------------------------------------------------------------------
(* Claims about assemble_all (specification SpecAll) and about the         *)
(* assemble_* methods (specification Spec)                                 *)

\* the file names assemble_all is to hand to save_dna
ExpectedFiles ==
    {<<"queen", ".md">>, <<"architect", ".md">>, <<"worker", "-", "general", ".md">>}
    \cup {<<"worker", "-", n, ".md">> : n \in (IF dirExists THEN DOMAIN specs ELSE {})}

\* C3: when assemble_all has returned, the documents handed to save_dna are
\* exactly queen, architect, worker-general and worker-<name> for each name
\* found in the Specialization Store (none when it is empty or missing).
C3_BatchIdentifiers ==
    pc = "done" => handed = ExpectedFiles

C3_Witness ==
    pc = "done" /\ Cardinality(DOMAIN specs) >= 2 /\ "general" \in DOMAIN specs

\* C4: a failure of save_dna never ends assemble_all: the batch ends only by
\* returning, with every document of the batch handed to the writer.
C4_WriteFailureConfined ==
    pc \in {"done", "raised"} => pc = "done" /\ handed = ExpectedFiles

\* C5: every document the assemble_* methods return, for every role, every
\* specialization and every store, ends with the closing text as the program
\* spells it: no value of the mapping is substituted into it.
C5_ClosingSection ==
    pc = "returned" => EndsWith(Plain(dna), Closing)

\* a worker document assembled over a store with every fragment absent
C5_Witness ==
    call.fn = "worker" /\ call.arg # "general" /\ DOMAIN store = {} /\ dna = Closing

\* C6: assemble_worker_dna(s) uses the nine fragments with
\* worker-specializations between coding-standards and worker-output when
\* s # "general" and the eight base fragments when s = "general", whatever
\* calls were made before.
C6_WorkerFragmentOrder ==
    call.fn = "worker" =>
        call.components =
            IF call.arg # "general"
            THEN <<"base-header", "prime-directive", "sub-agent-context",
                   "project-context", "worker-capabilities", "workflow-start",
                   "coding-standards", "worker-specializations", "worker-output">>
            ELSE <<"base-header", "prime-directive", "sub-agent-context",
                   "project-context", "worker-capabilities", "workflow-start",
                   "coding-standards", "worker-output">>

\* the general worker assembled again by the batch (general.yaml is in the
\* store) after the worker of a specialization
C6_Witness ==
    /\ pc = "specs"
    /\ call.fn = "worker" /\ call.arg = "general"
    /\ <<"worker", "-", "lexer", ".md">> \in handed

\* the store without the file of fragment f
WithoutFragment(st, f) == [n \in DOMAIN st \ {f} |-> st[n]]

\* the store with an empty file for fragment f
WithEmptyFragment(st, f) == [n \in DOMAIN st \cup {f} |-> IF n = f THEN <<>> ELSE st[n]]

SpecializationText == Substituted(store, "worker-specializations", call.variables)

\* C7 as stated: a worker document for a specialization other than "general"
\* contains the substituted text of worker-specializations, and the document
\* for "general" does not contain that text.
C7_AsStated ==
    call.fn = "worker" =>
        IF call.arg # "general"
        THEN Contains(Plain(dna), SpecializationText)
        ELSE ~Contains(Plain(dna), SpecializationText)

\* C7, amended: a worker document for a specialization other than "general"
\* contains the substituted text of worker-specializations; the document for
\* "general" is assembled without that fragment: it is the document obtained
\* with the fragment removed from the store.
C7_SpecializationInsertion ==
    call.fn = "worker" =>
        IF call.arg # "general"
        THEN Contains(Plain(dna), SpecializationText)
        ELSE dna = assemble_dna(WithoutFragment(store, "worker-specializations"),
                                call.components, call.variables)

C7_Witness ==
    /\ call.fn = "worker" /\ call.arg = "lexer"
    /\ "lexer" \in DOMAIN specs
    /\ "worker-specializations" \in DOMAIN store
    /\ SpecializationText # store["worker-specializations"]

\* the value of key in a variable mapping
ValueOf(variables, key) ==
    LET n == CHOOSE i \in 1..Len(variables) : variables[i].key = key
    IN variables[n].value

CutOut(whole, piece, doc) ==
    \E L \in 0..(Len(whole) - Len(piece)) :
        /\ SubSeq(whole, L + 1, L + Len(piece)) = piece
        /\ doc = SubSeq(whole, 1, L) \o SubSeq(whole, L + Len(piece) + 1, Len(whole))

\* C9: for every fragment f of the list of the call, the document assembled
\* with f removed from the store, or with an empty file for f, is the
\* document with f present less f's substituted text and one separator (the
\* same document when f contributed nothing).
C9_OmissionTolerance ==
    pc = "returned" =>
        \A k \in 1..Len(call.components) :
            LET f == call.components[k] IN
            \A removed \in {assemble_dna(WithoutFragment(store, f),
                                         call.components, call.variables)},
               emptied \in {assemble_dna(WithEmptyFragment(store, f),
                                         call.components, call.variables)},
               piece \in {Substituted(store, f, call.variables) \o Separator} :
                /\ emptied = removed
                /\ IF f \in DOMAIN store /\ store[f] # <<>>
                   THEN CutOut(dna, piece, removed)
                   ELSE removed = dna

\* a worker document of nine fragments, all present and not empty
C9_Witness ==
    /\ call.fn = "worker" /\ call.arg # "general"
    /\ DOMAIN store = FragNames
    /\ \A n \in FragNames : store[n] # <<>>

\* the fragments 1..k that resolve to text, substituted, each followed by
\* the separator
RECURSIVE Body_(_, _, _, _)
Body_(st, components, variables, k) ==
    IF k = 0 THEN <<>>
    ELSE Body_(st, components, variables, k - 1)
         \o (IF components[k] \in DOMAIN st /\ Len(st[components[k]]) > 0
             THEN Toks(substitute_variables(Plain(st[components[k]]), variables))
                  \o <<"\n", "\n">>
             ELSE <<>>)

====
